---- MODULE Spec2Model ----
(***************************************************************************)
(* Model of src/language.py: the LLM response scoring form.                *)
(*                                                                         *)
(* The script is re-executed from top to bottom on every user interaction  *)
(* (a slider move or a button click).  One action of the model is one      *)
(* interaction together with the complete script run(s) it triggers: the   *)
(* sidebar download section, the page arithmetic, the render loop that     *)
(* records the sliders into scores_dict, and the handler of the button     *)
(* that was clicked (st.rerun() starts a second run inside the action).    *)
(*                                                                         *)
(* Score entries are the dictionaries built at lines 146-152.  Their       *)
(* question_id and llm fields are copied from the immutable dataset row    *)
(* df.iloc[row_index], so they are functions of row_index and the model    *)
(* keeps the three fields that vary: row_index, score and page.            *)
(***************************************************************************)
EXTENDS Integers, Sequences, FiniteSets, TLC

VARIABLES
    total_rows,     \* len(df), fixed for the session (load_data is cached)
    current_page,   \* st.session_state.current_page
    scores_dict,    \* st.session_state.scores_dict, in insertion order
    score_state,    \* st.session_state[score_key], one key per displayed row
    saved_pages,    \* st.session_state.saved_pages
    all_scores,     \* st.session_state.all_scores (the exportable ledger)
    csv_data,       \* what the sidebar of the last run offers for download
    feedback,       \* the st.success / st.error / st.info of the last run
    last_op,        \* the button handler the last run executed, if any
    upserts,        \* writes into all_scores made by the last run
    resave,         \* the ledger as the last page save left it, for re-saves
    edits,          \* number of slider moves so far (bounded)
    view,           \* what the last run rendered: rows, warning, buttons
    p_total_rows,   \* Pager walk: the dataset size the walk is for
    p_page,         \* Pager walk: next page to emit
    emitted         \* Pager walk: <<page, col, row>> emitted so far

vars == <<total_rows, current_page, scores_dict, score_state, saved_pages,
          all_scores, csv_data, feedback, last_op, upserts, resave, edits,
          view, p_total_rows, p_page, emitted>>

ledgerVars == <<total_rows, current_page, scores_dict, score_state,
                saved_pages, all_scores, csv_data, feedback, last_op,
                upserts, resave, edits, view>>

pagerVars == <<p_total_rows, p_page, emitted>>

----------------------------------------------------------------------------
(* Bounds of the model *)

MaxRows == 6          \* the session runs on datasets of 1..MaxRows rows
MaxEdits == 1         \* slider moves per session
MaxPage == 1          \* the user opens pages 0..MaxPage
MaxPagerRows == 45    \* the Pager walk runs on datasets of 0..MaxPagerRows rows

(* Program constants *)

interval == 5
responses_per_page == 4
DefaultScore == 3
Options == 1..5

(* The values the user moves a slider to *)
SliderMoves == {2, 4}

pattern_groups == interval

----------------------------------------------------------------------------
(* The Pager: lines 62-112 *)

(* Variant of line 76 that drops the group of the remaining rows *)
TotalPatternSetsFloor(n) == n \div interval

(* lines 72-76 *)
TotalPatternSets(n) ==
    (n \div interval) + (IF n % interval > 0 THEN 1 ELSE 0)

(* line 78 *)
TotalPages(n) ==
    IF TotalPatternSets(n) > 0
    THEN pattern_groups * TotalPatternSets(n)
    ELSE pattern_groups

PatternIdx(page) == page % pattern_groups

PatternSet(page) == page \div pattern_groups

(* Variants of line 105 with a slip in the stride or the set width *)
RowIdxStrideOne(page, col_idx) ==
    PatternIdx(page) + (PatternSet(page) * interval * responses_per_page)
        + col_idx

RowIdxNoSetWidth(page, col_idx) ==
    PatternIdx(page) + (PatternSet(page) * interval) + (col_idx * interval)

RowIdx(page, col_idx) ==
    PatternIdx(page) + (PatternSet(page) * interval * responses_per_page)
        + (col_idx * interval)

(* Variant of line 108 with > for >= *)
ReachedEndOffByOne(row_idx, n) == row_idx > n

(* line 108: the end of the dataframe is reached *)
ReachedEnd(row_idx, n) == row_idx >= n

(* current_page_indices: the loop appends RowIdx for col_idx = 0, 1, ... and *)
(* breaks at the first row index that is >= total_rows.                     *)
RECURSIVE PageIndicesFrom(_, _, _)
PageIndicesFrom(page, n, col_idx) ==
    IF col_idx >= responses_per_page THEN <<>>
    ELSE IF ReachedEnd(RowIdx(page, col_idx), n) THEN <<>>
    ELSE <<RowIdx(page, col_idx)>> \o PageIndicesFrom(page, n, col_idx + 1)

CurrentPageIndices(page, n) == PageIndicesFrom(page, n, 0)

----------------------------------------------------------------------------
(* The Pager walk: emit the rows of pages 0 .. total_pages-1 in page order *)

PagerInit ==
    /\ p_total_rows \in 0..MaxPagerRows
    /\ p_page = 0
    /\ emitted = <<>>

EmitPage ==
    /\ p_page < TotalPages(p_total_rows)
    /\ LET idx == CurrentPageIndices(p_page, p_total_rows)
       IN emitted' = emitted \o
              [c \in 1..Len(idx) |-> [page |-> p_page, col |-> c - 1, row |-> idx[c]]]
    /\ p_page' = p_page + 1
    /\ UNCHANGED p_total_rows

PagerDone == p_page = TotalPages(p_total_rows)

----------------------------------------------------------------------------
(* scores_dict: a Python dict, kept as its items in insertion order *)

DictKeys(d) == {d[i].key : i \in 1..Len(d)}

DictIndex(d, k) == CHOOSE i \in 1..Len(d) : d[i].key = k

DictGet(d, k) == d[DictIndex(d, k)].val

(* d[k] = v: a new key goes to the end, an existing key keeps its place *)
DictSet(d, k, v) ==
    IF k \in DictKeys(d)
    THEN [d EXCEPT ![DictIndex(d, k)] = [key |-> k, val |-> v]]
    ELSE Append(d, [key |-> k, val |-> v])

(* st.session_state[score_key] = v *)
StateSet(ss, r, v) ==
    [x \in (DOMAIN ss) \cup {r} |-> IF x = r THEN v ELSE ss[x]]

----------------------------------------------------------------------------
(* The sidebar download section: lines 43-60 *)

CsvHeader == <<"row_index", "score", "page">>

(* scores_df.to_csv(index=False): a header line and one line per list item *)
ToCsv(ledger) ==
    [header |-> CsvHeader,
     rows |-> [i \in 1..Len(ledger) |->
                  <<ledger[i].row_index, ledger[i].score, ledger[i].page>>]]

Sidebar(ledger) ==
    IF ledger # <<>>
    THEN [offered |-> TRUE, csv |-> ToCsv(ledger)]
    ELSE [offered |-> FALSE, csv |-> [header |-> <<>>, rows |-> <<>>]]

----------------------------------------------------------------------------
(* The top of a script run: page guard and render loop, lines 80-154 *)

(* lines 81-82 *)
ValidPage(page, n) == IF page >= TotalPages(n) THEN 0 ELSE page

(* st.select_slider: the value the user just moved this slider to, else   *)
(* the value= argument, which is st.session_state[score_key]              *)
SliderValue(moved, r, value) == IF r \in DOMAIN moved THEN moved[r] ELSE value

(* lines 129-130 *)
WithDefault(ss, r) ==
    IF r \notin DOMAIN ss THEN StateSet(ss, r, DefaultScore) ELSE ss

(* Variant of line 151 that stores the page number shown to the user *)
EntryPageOneBased(r, score, page) ==
    [row_index |-> r, score |-> score, page |-> page + 1]

(* lines 146-152 *)
Entry(r, score, page) == [row_index |-> r, score |-> score, page |-> page]

(* The render loop from column col_idx on.  moved maps the row whose      *)
(* slider the user moved in this run (if any) to its new value.           *)
RECURSIVE RenderFrom(_, _, _, _, _, _)
RenderFrom(col_idx, page, n, sd, ss, moved) ==
    IF col_idx >= responses_per_page \/ ReachedEnd(RowIdx(page, col_idx), n)
    THEN [scores_dict |-> sd, score_state |-> ss, displayed_responses |-> col_idx,
          error |-> FALSE]
    ELSE IF RowIdx(page, col_idx) \notin 0..(n - 1)
    THEN \* line 115: df.iloc[row_idx] raises IndexError and the run stops
         [scores_dict |-> sd, score_state |-> ss, displayed_responses |-> col_idx,
          error |-> TRUE]
    ELSE LET r == RowIdx(page, col_idx)
             ss1 == WithDefault(ss, r)
             score == SliderValue(moved, r, ss1[r])
             ss2 == StateSet(ss1, r, score)
             sd2 == DictSet(sd, r, Entry(r, score, page))
         IN RenderFrom(col_idx + 1, page, n, sd2, ss2, moved)

Render(page, n, sd, ss, moved) == RenderFrom(0, page, n, sd, ss, moved)

NoMove == [x \in {} |-> DefaultScore]

(* line 165 *)
PrevOffered(page) == page > 0

(* Variant of line 176 that offers the page save on every page *)
SaveOfferedAlways(displayed_responses) == TRUE

(* line 176 *)
SaveOffered(displayed_responses) == displayed_responses > 0

(* Variant of line 212 that compares with total_pages *)
NextOfferedOffByOne(page, n) == page < TotalPages(n)

(* line 212 *)
NextOffered(page, n) == page < TotalPages(n) - 1

(* What a run that rendered page `page` shows: the warning of lines        *)
(* 156-157, the buttons of lines 165, 176 and 212, whether the guard of    *)
(* lines 81-82 fired (page_reset) and whether the run raised.              *)
RunView(page, n, rn, page_reset) ==
    [page |-> page,
     displayed_responses |-> rn.displayed_responses,
     warning |-> ~rn.error /\ rn.displayed_responses = 0,
     prev_offered |-> ~rn.error /\ PrevOffered(page),
     save_offered |-> ~rn.error /\ SaveOffered(rn.displayed_responses),
     next_offered |-> ~rn.error /\ NextOffered(page, n),
     page_reset |-> page_reset,
     error |-> rn.error]

----------------------------------------------------------------------------
(* The page save handler: lines 177-209 *)

(* Variant of the scan that starts at the second item *)
FindRowSkipFirst(ledger, row_idx) ==
    IF \E i \in 2..Len(ledger) : ledger[i].row_index = row_idx
    THEN CHOOSE i \in 2..Len(ledger) :
             /\ ledger[i].row_index = row_idx
             /\ \A j \in 2..(i - 1) : ledger[j].row_index # row_idx
    ELSE 0

(* lines 187-192: index of the first item with this row_index, 0 if none *)
FindRow(ledger, row_idx) ==
    IF \E i \in 1..Len(ledger) : ledger[i].row_index = row_idx
    THEN CHOOSE i \in 1..Len(ledger) :
             /\ ledger[i].row_index = row_idx
             /\ \A j \in 1..(i - 1) : ledger[j].row_index # row_idx
    ELSE 0

(* Variants of Upsert with a slip in the scan / replace / append *)
UpsertAlwaysAppend(ledger, row_idx, data) == Append(ledger, data)

UpsertMoveToEnd(ledger, row_idx, data) ==
    Append(SelectSeq(ledger, LAMBDA e : e.row_index # row_idx), data)

UpsertKeepExisting(ledger, row_idx, data) ==
    IF FindRow(ledger, row_idx) # 0 THEN ledger ELSE Append(ledger, data)

(* lines 186-196 and 228-238 *)
Upsert(ledger, row_idx, data) ==
    IF FindRow(ledger, row_idx) # 0
    THEN [ledger EXCEPT ![FindRow(ledger, row_idx)] = data]
    ELSE Append(ledger, data)

(* lines 181-198, from the i-th index of current_page_indices on *)
RECURSIVE PageSaveLoop(_, _, _, _)
PageSaveLoop(i, indices, sd, acc) ==
    IF i > Len(indices) THEN acc
    ELSE LET row_idx == indices[i]
         IN IF row_idx \in DictKeys(sd)
            THEN LET data == DictGet(sd, row_idx)
                 IN PageSaveLoop(i + 1, indices, sd,
                        [all_scores |-> Upsert(acc.all_scores, row_idx, data),
                         scores_to_save |-> Append(acc.scores_to_save, data),
                         upserts |-> acc.upserts + 1])
            ELSE PageSaveLoop(i + 1, indices, sd, acc)

(* lines 203-209 *)
PageSaveFeedback(scores_to_save, current_page_already_saved) ==
    IF scores_to_save # <<>>
    THEN IF current_page_already_saved
         THEN [level |-> "success", text |-> "Updated", count |-> Len(scores_to_save)]
         ELSE [level |-> "success", text |-> "Saved", count |-> Len(scores_to_save)]
    ELSE [level |-> "error", text |-> "No scores to save", count |-> 0]

NoFeedback == [level |-> "none", text |-> "", count |-> 0]

----------------------------------------------------------------------------
(* The save-all handler: lines 218-247 *)

(* Variant of line 221 that forgets to subtract the saved pages *)
CurrentUnsavedPagesAll(n, saved) == 0..(TotalPages(n) - 1)

(* line 221 *)
CurrentUnsavedPages(n, saved) == (0..(TotalPages(n) - 1)) \ saved

(* Variant of the loop that tests the live saved_pages instead of the     *)
(* snapshot taken at line 221                                             *)
RECURSIVE SaveAllLoopLive(_, _, _, _)
SaveAllLoopLive(i, sd, current_unsaved_pages, acc) ==
    IF i > Len(sd) THEN acc
    ELSE LET row_idx == sd[i].key
             data == sd[i].val
         IN IF data.page \notin acc.saved_pages
            THEN SaveAllLoopLive(i + 1, sd, current_unsaved_pages,
                     [all_scores |-> Upsert(acc.all_scores, row_idx, data),
                      saved_pages |-> acc.saved_pages \cup {data.page},
                      newly_saved |-> acc.newly_saved
                          + (IF FindRow(acc.all_scores, row_idx) = 0 THEN 1 ELSE 0),
                      upserts |-> acc.upserts + 1])
            ELSE SaveAllLoopLive(i + 1, sd, current_unsaved_pages, acc)

(* Variant of the loop without line 242 *)
RECURSIVE SaveAllLoopNoMark(_, _, _, _)
SaveAllLoopNoMark(i, sd, current_unsaved_pages, acc) ==
    IF i > Len(sd) THEN acc
    ELSE LET row_idx == sd[i].key
             data == sd[i].val
         IN IF data.page \in current_unsaved_pages
            THEN SaveAllLoopNoMark(i + 1, sd, current_unsaved_pages,
                     [all_scores |-> Upsert(acc.all_scores, row_idx, data),
                      saved_pages |-> acc.saved_pages,
                      newly_saved |-> acc.newly_saved
                          + (IF FindRow(acc.all_scores, row_idx) = 0 THEN 1 ELSE 0),
                      upserts |-> acc.upserts + 1])
            ELSE SaveAllLoopNoMark(i + 1, sd, current_unsaved_pages, acc)

(* lines 224-242, from the i-th item of scores_dict on *)
RECURSIVE SaveAllLoop(_, _, _, _)
SaveAllLoop(i, sd, current_unsaved_pages, acc) ==
    IF i > Len(sd) THEN acc
    ELSE LET row_idx == sd[i].key
             data == sd[i].val
         IN IF data.page \in current_unsaved_pages
            THEN SaveAllLoop(i + 1, sd, current_unsaved_pages,
                     [all_scores |-> Upsert(acc.all_scores, row_idx, data),
                      saved_pages |-> acc.saved_pages \cup {data.page},
                      newly_saved |-> acc.newly_saved
                          + (IF FindRow(acc.all_scores, row_idx) = 0 THEN 1 ELSE 0),
                      upserts |-> acc.upserts + 1])
            ELSE SaveAllLoop(i + 1, sd, current_unsaved_pages, acc)

(* lines 244-247 *)
SaveAllFeedback(newly_saved) ==
    IF newly_saved > 0
    THEN [level |-> "success", text |-> "Saved", count |-> newly_saved]
    ELSE [level |-> "info", text |-> "No unsaved scores to save", count |-> 0]

----------------------------------------------------------------------------
(* Bookkeeping for re-saves: the ledger as the first of a run of page      *)
(* saves of one page left it, as long as no slider has moved and no other  *)
(* save has run since.                                                     *)

(* left: the user has been on another page since that first save *)
NoResave == [valid |-> FALSE, page |-> 0, ledger |-> <<>>, left |-> FALSE]

ResaveAfterPageSave(rs, page, ledger) ==
    IF rs.valid /\ rs.page = page
    THEN rs
    ELSE [valid |-> TRUE, page |-> page, ledger |-> ledger, left |-> FALSE]

ResaveAfterNav(rs, page) ==
    IF rs.valid /\ rs.page # page THEN [rs EXCEPT !.left = TRUE] ELSE rs

----------------------------------------------------------------------------
(* The session *)

(* lines 9-14, then the first script run, which renders page 0 *)
Init ==
    /\ total_rows \in 1..MaxRows
    /\ current_page = 0
    /\ LET rn == Render(0, total_rows, <<>>, <<>>, NoMove)
       IN /\ scores_dict = rn.scores_dict
          /\ score_state = rn.score_state
          /\ view = RunView(0, total_rows, rn, FALSE)
    /\ saved_pages = {}
    /\ all_scores = <<>>
    /\ csv_data = Sidebar(<<>>)
    /\ feedback = NoFeedback
    /\ last_op = "none"
    /\ upserts = 0
    /\ resave = NoResave
    /\ edits = 0
    /\ p_total_rows = 0
    /\ p_page = 0
    /\ emitted = <<>>

(* Variant of record in which the list items are the dictionary's own      *)
(* entries, so that a recorded entry shows through the list                *)
LedgerAfterRecordAliased(ledger, sd) ==
    [i \in 1..Len(ledger) |->
        IF ledger[i].row_index \in DictKeys(sd)
        THEN DictGet(sd, ledger[i].row_index)
        ELSE ledger[i]]

(* lines 143-152: record binds a new dict object to scores_dict[row_idx];  *)
(* the object a save stored in all_scores is not written to                *)
LedgerAfterRecord(ledger, sd) == ledger

(* Variant of the handler without line 201 *)
MarkPageSavedNot(saved, page) == saved

(* line 201 *)
MarkPageSaved(saved, page) == saved \cup {page}

(* lines 164-168: the run that sees the click, then the rerun *)
PrevPage ==
    LET page == ValidPage(current_page, total_rows)
        rn1 == Render(page, total_rows, scores_dict, score_state, NoMove)
    IN /\ ~view.error
       /\ PrevOffered(page)
       /\ LET page2 == ValidPage(page - 1, total_rows)
              rn2 == Render(page2, total_rows, rn1.scores_dict, rn1.score_state, NoMove)
          IN /\ current_page' = page2
             /\ scores_dict' = rn2.scores_dict
             /\ score_state' = rn2.score_state
             /\ resave' = ResaveAfterNav(resave, page2)
             /\ all_scores' = LedgerAfterRecord(all_scores, rn2.scores_dict)
             /\ view' = RunView(page2, total_rows, rn2,
                                page # current_page \/ page2 # page - 1)
       /\ csv_data' = Sidebar(all_scores)
       /\ feedback' = NoFeedback
       /\ last_op' = "none"
       /\ upserts' = 0
       /\ UNCHANGED <<total_rows, saved_pages, edits>>
       /\ UNCHANGED pagerVars

(* lines 211-215: the run that sees the click, then the rerun *)
NextPage ==
    LET page == ValidPage(current_page, total_rows)
        rn1 == Render(page, total_rows, scores_dict, score_state, NoMove)
    IN /\ ~view.error
       /\ NextOffered(page, total_rows)
       /\ LET page2 == ValidPage(page + 1, total_rows)
              rn2 == Render(page2, total_rows, rn1.scores_dict, rn1.score_state, NoMove)
          IN /\ current_page' = page2
             /\ scores_dict' = rn2.scores_dict
             /\ score_state' = rn2.score_state
             /\ resave' = ResaveAfterNav(resave, page2)
             /\ all_scores' = LedgerAfterRecord(all_scores, rn2.scores_dict)
             /\ view' = RunView(page2, total_rows, rn2,
                                page # current_page \/ page2 # page + 1)
       /\ csv_data' = Sidebar(all_scores)
       /\ feedback' = NoFeedback
       /\ last_op' = "none"
       /\ upserts' = 0
       /\ UNCHANGED <<total_rows, saved_pages, edits>>
       /\ UNCHANGED pagerVars

(* The user moves the slider of a displayed row: one script run, lines 132-152 *)
SetScore ==
    LET page == ValidPage(current_page, total_rows)
        indices == CurrentPageIndices(page, total_rows)
    IN /\ ~view.error
       /\ edits < MaxEdits
       /\ \E i \in 1..Len(indices) :
            \E v \in (SliderMoves \cap Options) \ {score_state[indices[i]]} :
               LET moved == [x \in {indices[i]} |-> v]
                   rn == Render(page, total_rows, scores_dict, score_state, moved)
               IN /\ scores_dict' = rn.scores_dict
                  /\ score_state' = rn.score_state
                  /\ all_scores' = LedgerAfterRecord(all_scores, rn.scores_dict)
                  /\ view' = RunView(page, total_rows, rn, page # current_page)
       /\ current_page' = page
       /\ csv_data' = Sidebar(all_scores)
       /\ feedback' = NoFeedback
       /\ last_op' = "none"
       /\ upserts' = 0
       /\ resave' = NoResave
       /\ edits' = edits + 1
       /\ UNCHANGED <<total_rows, saved_pages>>
       /\ UNCHANGED pagerVars

(* lines 170-209: the page save button, offered when displayed_responses > 0 *)
PageSave ==
    LET page == ValidPage(current_page, total_rows)
        rn == Render(page, total_rows, scores_dict, score_state, NoMove)
        current_page_indices == CurrentPageIndices(page, total_rows)
        current_page_already_saved == page \in saved_pages
        acc == PageSaveLoop(1, current_page_indices, rn.scores_dict,
                            [all_scores |-> LedgerAfterRecord(all_scores, rn.scores_dict),
                             scores_to_save |-> <<>>,
                             upserts |-> 0])
    IN /\ ~view.error
       /\ SaveOffered(rn.displayed_responses)
       /\ view' = RunView(page, total_rows, rn, page # current_page)
       /\ current_page' = page
       /\ scores_dict' = rn.scores_dict
       /\ score_state' = rn.score_state
       /\ csv_data' = Sidebar(all_scores)
       /\ all_scores' = acc.all_scores
       /\ saved_pages' = MarkPageSaved(saved_pages, page)
       /\ feedback' = PageSaveFeedback(acc.scores_to_save, current_page_already_saved)
       /\ last_op' = "page_save"
       /\ upserts' = acc.upserts
       /\ resave' = ResaveAfterPageSave(resave, page, acc.all_scores)
       /\ UNCHANGED <<total_rows, edits>>
       /\ UNCHANGED pagerVars

(* lines 217-247: the save-all button *)
SaveAll ==
    LET page == ValidPage(current_page, total_rows)
        rn == Render(page, total_rows, scores_dict, score_state, NoMove)
        acc == SaveAllLoop(1, rn.scores_dict,
                           CurrentUnsavedPages(total_rows, saved_pages),
                           [all_scores |-> LedgerAfterRecord(all_scores, rn.scores_dict),
                            saved_pages |-> saved_pages,
                            newly_saved |-> 0, upserts |-> 0])
    IN /\ ~view.error
       /\ view' = RunView(page, total_rows, rn, page # current_page)
       /\ current_page' = page
       /\ scores_dict' = rn.scores_dict
       /\ score_state' = rn.score_state
       /\ csv_data' = Sidebar(all_scores)
       /\ all_scores' = acc.all_scores
       /\ saved_pages' = acc.saved_pages
       /\ feedback' = SaveAllFeedback(acc.newly_saved)
       /\ last_op' = "save_all"
       /\ upserts' = acc.upserts
       /\ resave' = NoResave
       /\ UNCHANGED <<total_rows, edits>>
       /\ UNCHANGED pagerVars

(* One interaction per step.  The user opens pages 0..MaxPage only. *)
Next ==
    \/ PrevPage
    \/ (NextPage /\ current_page' <= MaxPage)
    \/ SetScore
    \/ PageSave
    \/ SaveAll

Spec == Init /\ [][Next]_vars

(* The session with every page open to the user and no slider moves *)
NavNext ==
    \/ PrevPage
    \/ NextPage
    \/ PageSave
    \/ SaveAll

NavSpec == Init /\ [][NavNext]_vars

----------------------------------------------------------------------------
(* The Pager on its own, for every dataset size *)

PagerSpecInit ==
    /\ PagerInit
    /\ total_rows = 0
    /\ current_page = 0
    /\ scores_dict = <<>>
    /\ score_state = <<>>
    /\ saved_pages = {}
    /\ all_scores = <<>>
    /\ csv_data = Sidebar(<<>>)
    /\ feedback = NoFeedback
    /\ last_op = "none"
    /\ upserts = 0
    /\ resave = NoResave
    /\ edits = 0
    /\ view = RunView(0, 0, Render(0, 0, <<>>, <<>>, NoMove), FALSE)

PagerNext == EmitPage /\ UNCHANGED ledgerVars

PagerSpec == PagerSpecInit /\ [][PagerNext]_vars

----------------------------------------------------------------------------
(* Properties *)

(* Positions of the ledger entries with identity key r *)
LedgerPositions(ledger, r) == {i \in 1..Len(ledger) : ledger[i].row_index = r}

LedgerRows(ledger) == {ledger[i].row_index : i \in 1..Len(ledger)}

(* Rows displayed on a page *)
PageRows(page, n) ==
    {CurrentPageIndices(page, n)[i] : i \in 1..Len(CurrentPageIndices(page, n))}

EmittedRows == [i \in 1..Len(emitted) |-> emitted[i].row]

EmittedAt(r) == {i \in 1..Len(emitted) : emitted[i].row = r}

(* C1: the exportable ledger holds at most one entry per identity key      *)
(* (row_index), after any sequence of navigations, slider moves, page      *)
(* saves and save-alls.                                                    *)
C1_OneEntryPerIdentity ==
    \A i, j \in 1..Len(all_scores) :
        all_scores[i].row_index = all_scores[j].row_index => i = j

(* A page save has overwritten an entry with a changed score, next to      *)
(* another entry.                                                          *)
C1_Witness ==
    /\ last_op = "page_save"
    /\ feedback.text = "Updated"
    /\ Len(all_scores) >= 2
    /\ \E i \in 1..Len(all_scores) :
          /\ all_scores[i].page = current_page
          /\ all_scores[i].score # DefaultScore

(* C2: for every total_rows >= 1 the rows emitted over pages               *)
(* 0..total_pages-1 never repeat, never reach total_rows, and once the     *)
(* last page is emitted every row of 0..total_rows-1 has been emitted on   *)
(* exactly one page at exactly one column.                                 *)
C2_PagesPartitionRows ==
    p_total_rows >= 1 =>
        /\ \A i \in 1..Len(emitted) :
              /\ emitted[i].row \in 0..(p_total_rows - 1)
              /\ emitted[i].row = RowIdx(emitted[i].page, emitted[i].col)
              /\ Cardinality(EmittedAt(emitted[i].row)) = 1
        /\ PagerDone =>
              \A r \in 0..(p_total_rows - 1) : Cardinality(EmittedAt(r)) = 1

(* The walk is complete for a dataset that spans more than one pattern set *)
C2_Witness ==
    /\ PagerDone
    /\ p_total_rows > interval * responses_per_page
    /\ Len(emitted) = p_total_rows

(* C3 as stated: the rows emitted over pages 0..total_pages-1, in page     *)
(* order and column order, are the sequence 0, 1, ..., total_rows-1.       *)
C3_ConcatenationIsIdentity ==
    PagerDone => EmittedRows = [i \in 1..p_total_rows |-> i - 1]

(* C3 amended: within a page the rows increase strictly, by interval from  *)
(* one column to the next; over the whole page range the concatenation     *)
(* holds total_rows rows, all different and all below total_rows (a        *)
(* permutation of 0..total_rows-1), and it is the increasing sequence      *)
(* exactly when total_rows <= interval.                                    *)
C3_InterleavedPermutation ==
    /\ \A i \in 1..(Len(emitted) - 1) :
          emitted[i].page = emitted[i + 1].page =>
              emitted[i + 1].row = emitted[i].row + interval
    /\ \A i \in 1..(Len(emitted) - 1) :
          emitted[i].page <= emitted[i + 1].page
    /\ PagerDone =>
          /\ Len(emitted) = p_total_rows
          /\ \A i, j \in 1..Len(emitted) :
                emitted[i].row = emitted[j].row => i = j
          /\ \A i \in 1..Len(emitted) : emitted[i].row < p_total_rows
          /\ (EmittedRows = [i \in 1..p_total_rows |-> i - 1])
                <=> (p_total_rows <= interval)

(* A complete walk whose concatenation is not increasing *)
C3_Witness ==
    /\ PagerDone
    /\ p_total_rows > interval
    /\ \E i \in 1..(Len(emitted) - 1) : emitted[i].row > emitted[i + 1].row

(* C4: when a page save has completed, every row displayed on the current  *)
(* page has exactly one ledger entry, and its score is the score most      *)
(* recently recorded for that row.                                         *)
C4_PageSaveStoresLatest ==
    last_op = "page_save" =>
        \A r \in PageRows(current_page, total_rows) :
            /\ Cardinality(LedgerPositions(all_scores, r)) = 1
            /\ r \in DictKeys(scores_dict)
            /\ \A i \in LedgerPositions(all_scores, r) :
                  /\ all_scores[i].score = DictGet(scores_dict, r).score
                  /\ all_scores[i].score = score_state[r]

(* A second page save of a two-row page after one of its sliders moved *)
C4_Witness ==
    /\ last_op = "page_save"
    /\ current_page \in saved_pages
    /\ feedback = [level |-> "success", text |-> "Updated", count |-> 2]
    /\ \E r \in PageRows(current_page, total_rows) :
          /\ score_state[r] # DefaultScore
          /\ \E i \in LedgerPositions(all_scores, r) :
                all_scores[i].score = score_state[r]

(* Entries of the working dictionary *)
DictEntries(d) == {d[i].val : i \in 1..Len(d)}

LedgerEntries(ledger) == {ledger[i] : i \in 1..Len(ledger)}

(* C5: a save-all writes into the ledger exactly the recorded entries      *)
(* whose page is not in the saved set when it starts (every row of such a  *)
(* page), leaves every ledger entry of an already-saved page as it was,    *)
(* and afterwards every page with a recorded entry is in the saved set.    *)
C5_SaveAllWritesUnsavedOnly ==
    [][last_op' = "save_all" =>
          LET written == {e \in DictEntries(scores_dict') : e.page \notin saved_pages}
              kept == {i \in 1..Len(all_scores) : all_scores[i].page \in saved_pages}
          IN /\ written \subseteq LedgerEntries(all_scores')
             /\ \A i \in kept :
                   i <= Len(all_scores') /\ all_scores'[i] = all_scores[i]
             /\ LedgerEntries(all_scores') =
                   {all_scores[i] : i \in kept} \cup written
             /\ upserts' = Cardinality(written)
             /\ \A e \in DictEntries(scores_dict') : e.page \in saved_pages'
             /\ saved_pages \subseteq saved_pages'
      ]_vars

(* A save-all has written both rows of a page while the entry of an        *)
(* already-saved page keeps a score that differs from its working score.   *)
C5_Witness ==
    /\ last_op = "save_all"
    /\ upserts >= 2
    /\ \E i \in 1..Len(all_scores) :
          all_scores[i].score # DictGet(scores_dict, all_scores[i].row_index).score
    /\ \E i, j \in 1..Len(all_scores) :
          i # j /\ all_scores[i].page = all_scores[j].page

(* C6: every save reports the number of entries it upserted (replaced in  *)
(* place or appended): the page save and the save-all alike.               *)
C6_ReportsEntriesTouched ==
    last_op \in {"page_save", "save_all"} => feedback.count = upserts

(* A save-all that runs after a page save and upserts two entries *)
C6_Witness ==
    /\ last_op = "save_all"
    /\ upserts = 2
    /\ feedback.count = 2
    /\ Cardinality(saved_pages) >= 2

(* C7: a page save of a page that was saved before, with no slider moved   *)
(* and no other save run since (the user may have left the page and come   *)
(* back), leaves the ledger equal to the ledger after the earlier save:    *)
(* same entries, same order.                                               *)
C7_PageSaveIdempotent ==
    (last_op = "page_save" /\ resave.valid) => all_scores = resave.ledger

(* The page is saved again after the user left it and came back *)
C7_Witness ==
    /\ last_op = "page_save"
    /\ resave.valid
    /\ resave.left
    /\ resave.page = current_page
    /\ Len(all_scores) >= 2
    /\ feedback.text = "Updated"

(* No recorded entry belongs to a page outside the saved set *)
NothingUnsaved ==
    \A e \in DictEntries(scores_dict) : e.page \in saved_pages

(* C8: a save-all that finds nothing unsaved reports zero saved as an      *)
(* informational result and leaves the ledger, the saved set, the working  *)
(* dictionary and the current page unchanged.                              *)
C8_SaveAllNothingUnsaved ==
    [][(last_op' = "save_all" /\ NothingUnsaved) =>
          /\ feedback' = [level |-> "info", text |-> "No unsaved scores to save",
                          count |-> 0]
          /\ upserts' = 0
          /\ UNCHANGED <<all_scores, saved_pages, scores_dict, current_page>>
      ]_vars

(* A save-all has reported nothing unsaved while the ledger holds an entry *)
(* whose working score has moved on.                                       *)
C8_Witness ==
    /\ last_op = "save_all"
    /\ feedback.level = "info"
    /\ NothingUnsaved
    /\ \E i \in 1..Len(all_scores) :
          all_scores[i].score # DictGet(scores_dict, all_scores[i].row_index).score

(* C9: a page save gives "Updated" feedback exactly when the current page  *)
(* was in the saved set, and then every row it touches already has a       *)
(* ledger entry (it overwrites); otherwise it gives "Saved" feedback and   *)
(* no row it touches has a ledger entry (it appends).                      *)
C9_SavedSetTellsSaveFromUpdate ==
    [][last_op' = "page_save" =>
          LET touched == PageRows(current_page', total_rows) \cap DictKeys(scores_dict')
          IN /\ touched # {}
             /\ feedback'.level = "success"
             /\ feedback'.text = (IF current_page' \in saved_pages
                                   THEN "Updated" ELSE "Saved")
             /\ current_page' \in saved_pages =>
                   /\ touched \subseteq LedgerRows(all_scores)
                   /\ Len(all_scores') = Len(all_scores)
             /\ current_page' \notin saved_pages =>
                   /\ touched \cap LedgerRows(all_scores) = {}
                   /\ Len(all_scores') = Len(all_scores) + Cardinality(touched)
      ]_vars

(* A page save gives "Saved" feedback for a two-row page while another     *)
(* page is already saved.                                                  *)
C9_Witness ==
    /\ last_op = "page_save"
    /\ feedback = [level |-> "success", text |-> "Saved", count |-> 2]
    /\ Cardinality(saved_pages) = 2
    /\ Len(all_scores) = 3

(* C10: at the end of every script run the CSV offered for download has    *)
(* exactly one row per identity held in the ledger at the end of that run. *)
C10_CsvMatchesLedger ==
    /\ Len(csv_data.csv.rows) = Len(all_scores)
    /\ \A r \in LedgerRows(all_scores) :
          Cardinality({i \in 1..Len(csv_data.csv.rows) :
                          csv_data.csv.rows[i][1] = r}) = 1
    /\ all_scores # <<>> => csv_data.offered

(* A page of 0..total_pages-1 whose first row index is past the dataset *)
TrailingEmptyPage(page, n) ==
    /\ page \in 0..(TotalPages(n) - 1)
    /\ RowIdx(page, 0) >= n

(* C11: a run that ends on a trailing empty page raises no error, emits    *)
(* zero rows, shows the "no responses to display" warning, offers no page  *)
(* save and records nothing in the working dictionary; no page save runs   *)
(* there, and unless the run is a save-all it leaves the ledger and the    *)
(* saved set unchanged.                                                    *)
C11_TrailingPageDegrades ==
    [][TrailingEmptyPage(current_page', total_rows') =>
          /\ ~view'.error
          /\ view'.page = current_page'
          /\ view'.displayed_responses = 0
          /\ view'.warning
          /\ ~view'.save_offered
          /\ scores_dict' = scores_dict
          /\ score_state' = score_state
          /\ last_op' # "page_save"
          /\ last_op' = "none" =>
                all_scores' = all_scores /\ saved_pages' = saved_pages
      ]_vars

(* The user is on a trailing empty page of the second pattern set with a   *)
(* saved ledger.                                                           *)
C11_Witness ==
    /\ TrailingEmptyPage(current_page, total_rows)
    /\ current_page >= interval
    /\ view.warning
    /\ all_scores # <<>>
    /\ last_op = "none"

(* The least k with k * d >= n *)
CeilDiv(n, d) == CHOOSE k \in 0..n : k * d >= n /\ (k - 1) * d < n

(* Rows the walk has emitted for a page, in column order *)
EmittedOn(page) ==
    LET at == SelectSeq(emitted, LAMBDA e : e.page = page)
    IN [i \in 1..Len(at) |-> at[i].row]

(* C12: for every total_rows >= 1, total_pages = 5 * ceil(total_rows / 5), *)
(* the walk ends after exactly that many pages, and total_pages is never   *)
(* less than 5; with 13 rows there are 15 pages, page 0 shows rows 0, 5,   *)
(* 10 and page 5 shows none.                                               *)
C12_TotalPagesFormula ==
    /\ TotalPages(p_total_rows) >= interval
    /\ p_page <= TotalPages(p_total_rows)
    /\ p_total_rows >= 1 =>
          /\ TotalPages(p_total_rows) = interval * CeilDiv(p_total_rows, interval)
          /\ PagerDone => p_page = interval * CeilDiv(p_total_rows, interval)
    /\ (p_total_rows = 13 /\ PagerDone) =>
          /\ p_page = 15
          /\ EmittedOn(0) = <<0, 5, 10>>
          /\ EmittedOn(5) = <<>>

(* The walk over 13 rows has emitted its 15 pages *)
C12_Witness ==
    /\ p_total_rows = 13
    /\ PagerDone
    /\ p_page = 15
    /\ Len(emitted) = 13

(* Identities a step hands to the ledger: the recorded rows of the page    *)
(* for a page save, the recorded rows of the pages not yet saved for a     *)
(* save-all, none otherwise.                                               *)
SavedIdentities ==
    IF last_op' = "page_save"
    THEN PageRows(current_page', total_rows') \cap DictKeys(scores_dict')
    ELSE IF last_op' = "save_all"
    THEN {r \in DictKeys(scores_dict') :
              DictGet(scores_dict', r).page \notin saved_pages}
    ELSE {}

(* C13: the exportable list is append-only with in-place replacement: no   *)
(* step removes an entry or moves an identity already in the list, the     *)
(* length never decreases, and each operation grows the list by exactly    *)
(* the number of identities it saves that were not in the list before.     *)
C13_AppendOnlyInPlace ==
    [][/\ Len(all_scores') >= Len(all_scores)
       /\ \A i \in 1..Len(all_scores) :
             all_scores'[i].row_index = all_scores[i].row_index
       /\ LedgerRows(all_scores') = LedgerRows(all_scores) \cup SavedIdentities
       /\ Len(all_scores') =
             Len(all_scores)
               + Cardinality(SavedIdentities \ LedgerRows(all_scores))
      ]_vars

(* A page whose entry heads the list has been saved again while entries of *)
(* another page follow it.                                                 *)
C13_Witness ==
    /\ last_op = "page_save"
    /\ feedback.text = "Updated"
    /\ Len(all_scores) >= 2
    /\ all_scores[1].page = current_page
    /\ all_scores[Len(all_scores)].page # current_page

(* C14: recording a score and page navigation leave the exportable ledger *)
(* and the saved set as they were, and a save leaves every entry it does   *)
(* not touch as it was: an exported entry keeps the score of its last save *)
(* until the next save that touches it.                                    *)
C14_RecordLeavesLedger ==
    [][/\ last_op' = "none" =>
             /\ all_scores' = all_scores
             /\ saved_pages' = saved_pages
             /\ total_rows' = total_rows
       /\ \A i \in 1..Len(all_scores) :
             all_scores[i].row_index \notin SavedIdentities =>
                 /\ i <= Len(all_scores')
                 /\ all_scores'[i] = all_scores[i]
      ]_vars

(* After a slider move on a saved row the ledger still holds the score of  *)
(* the save while the working dictionary holds the new one.                *)
C14_Witness ==
    /\ last_op = "none"
    /\ edits >= 1
    /\ \E i \in 1..Len(all_scores) :
          /\ all_scores[i].row_index \in DictKeys(scores_dict)
          /\ all_scores[i].score = DefaultScore
          /\ DictGet(scores_dict, all_scores[i].row_index).score # DefaultScore

(* C15: after any sequence of previous-page and next-page actions          *)
(* current_page stays within 0..total_pages-1: previous is not available   *)
(* on page 0, next is not available on page total_pages-1, and the         *)
(* reset-to-0 guard for an out-of-range page never fires.                  *)
C15_PageStaysInRange ==
    /\ current_page \in 0..(TotalPages(total_rows) - 1)
    /\ view.page = current_page
    /\ ~view.page_reset
    /\ ValidPage(current_page, total_rows) = current_page
    /\ current_page = 0 => ~view.prev_offered /\ ~ENABLED PrevPage
    /\ current_page = TotalPages(total_rows) - 1 =>
          ~view.next_offered /\ ~ENABLED NextPage
    /\ current_page > 0 => view.prev_offered
    /\ current_page < TotalPages(total_rows) - 1 => view.next_offered

(* The user has walked to the last page of a dataset of two pattern sets *)
C15_Witness ==
    /\ total_rows > interval
    /\ current_page = TotalPages(total_rows) - 1
    /\ view.prev_offered
    /\ ~view.next_offered

(* C16: whenever the page save is executed every row index of the current *)
(* page already has a recorded entry in the working dictionary, so the     *)
(* page save touches at least one entry and never reports "No scores to    *)
(* save".                                                                  *)
C16_PageSaveFindsEntries ==
    /\ view.save_offered =>
          /\ PageRows(current_page, total_rows) # {}
          /\ PageRows(current_page, total_rows) \subseteq DictKeys(scores_dict)
    /\ ENABLED PageSave => view.save_offered
    /\ last_op = "page_save" =>
          /\ view.save_offered
          /\ upserts >= 1
          /\ upserts = Cardinality(PageRows(current_page, total_rows))
          /\ feedback.level = "success"
          /\ feedback.text # "No scores to save"
          /\ feedback.count = upserts

(* A first page save of a page of two rows has stored both *)
C16_Witness ==
    /\ last_op = "page_save"
    /\ feedback.text = "Saved"
    /\ upserts = Cardinality(PageRows(current_page, total_rows))
    /\ upserts >= 2

(* Pages of the dataset on which a row is displayed *)
PagesOfRow(r, n) == {p \in 0..(TotalPages(n) - 1) : r \in PageRows(p, n)}

(* A well-formed entry stored under key r *)
WellFormedEntry(e, r) ==
    /\ e.score \in Options
    /\ e.row_index = r
    /\ r \in 0..(total_rows - 1)
    /\ PagesOfRow(r, total_rows) = {e.page}

EntriesWellFormed ==
    /\ \A r \in DictKeys(scores_dict) : WellFormedEntry(DictGet(scores_dict, r), r)
    /\ \A i \in 1..Len(all_scores) :
          WellFormedEntry(all_scores[i], all_scores[i].row_index)
    /\ edits = 0 =>
          \A r \in DictKeys(scores_dict) :
              DictGet(scores_dict, r).score = DefaultScore

(* C17: in every reachable state every entry of the working dictionary and *)
(* of the exportable ledger has a score in 1..5, a row_index in            *)
(* 0..total_rows-1 equal to its key, and a page field equal to the unique  *)
(* page on which the Pager emits that row; the working dictionary has an   *)
(* entry, initially with the default score 3, for exactly the rows of the  *)
(* pages displayed so far: those of page 0 at the start, and each step     *)
(* adds exactly the missing rows of the page it displays.                  *)
C17_EntriesWellFormed ==
    /\ EntriesWellFormed
    /\ DictKeys(scores_dict) = PageRows(0, total_rows)
    /\ [][/\ EntriesWellFormed'
          /\ DictKeys(scores_dict') =
                DictKeys(scores_dict) \cup PageRows(current_page', total_rows')
          /\ \A r \in DictKeys(scores_dict') \ DictKeys(scores_dict) :
                DictGet(scores_dict', r).score = DefaultScore
         ]_vars

(* Rows of two pages are recorded and a moved score has been saved from    *)
(* the second page.                                                        *)
C17_Witness ==
    /\ edits >= 1
    /\ current_page = 1
    /\ DictKeys(scores_dict) =
          PageRows(0, total_rows) \cup PageRows(1, total_rows)
    /\ \E i \in 1..Len(all_scores) :
          /\ all_scores[i].page = 1
          /\ all_scores[i].score \in SliderMoves

====
